---- MODULE Spec2Model ----
(***************************************************************************)
(* Model of standard_name_helper.py: the change detection between two      *)
(* standard-name catalogs (process_diff_lines, find_changed_vars) and the  *)
(* replay validation of a stored change file (parse_change_file).          *)
(*                                                                         *)
(* A name is a sequence of character codes (1 = 'a', 2 = 'b'); the empty   *)
(* string '' is <<>>.  A change record is the pair <<old, new>>.           *)
(***************************************************************************)
EXTENDS Integers, Sequences, FiniteSets, TLC

VARIABLES
  pc,                        \* where the program is
  std_name_changes,          \* the change list being built / returned
  minus_lines, plus_lines,   \* removed and added lines of the hunk in hand
  minus_names, plus_names,   \* names declared by the '-' / '+' lines read so far
  unique_names,              \* no name was declared twice on one side so far
  std_nm_replacements,       \* sweep snapshot: rename records
  std_nm_replacements_new,   \* sweep snapshot: targets of the rename records
  std_nm_new,                \* sweep snapshot: names of the pure additions
  std_nm_deletions,          \* sweep snapshot: names of the pure removals
  idx,                       \* position of the running for loop
  hunks_read,                \* hunks of the diff consumed so far
  n_replacements, n_adds, n_removals,   \* the returned counts
  runs,                      \* completed runs of the two sweeps
  reconciled,                \* list returned by the first run of the sweeps
  std_name_changes_from_file,\* records loaded from the change file
  known_names,               \* host_metadata.keys() + physics_metadata.keys()
  potential_removals,        \* interactive hunk: names of the '-' declarations
  potential_additions,       \* interactive hunk: added names not yet chosen
  processed_potential_removals,  \* interactive hunk: removed names already paired
  diff_lines                 \* the lines that unified_diff handed to the diff loop

vars == <<pc, std_name_changes, minus_lines, plus_lines, minus_names, plus_names,
          unique_names, std_nm_replacements, std_nm_replacements_new, std_nm_new,
          std_nm_deletions, idx, hunks_read, n_replacements, n_adds, n_removals, runs,
          reconciled, std_name_changes_from_file, known_names,
          potential_removals, potential_additions, processed_potential_removals,
          diff_lines>>

\* ------------------------------------------------------------------ bounds
NumOldNames == 3       \* how many names of OldPool the old catalog draws from
NumNewNames == 4       \* how many names of NewPool the new catalog draws from
MaxHunks == 3          \* most hunks in the diff of the two catalogs
MaxHunkLines == 2      \* most lines on one side of a hunk handed to process_diff_lines
NumReplayNames == 2    \* names appearing in a stored change file
MaxFileChanges == 2    \* most records in a stored change file
MaxDiffLines == 4      \* most lines of a diff read line by line
NumLineNames == 1      \* names declared by the lines of such a diff, per side

\* ------------------------------------------------------- program constants
\* GET_CLOSE_MATCHES_NONINTERACTIVE_CUTOFF = 0.5, in tenths
GET_CLOSE_MATCHES_NONINTERACTIVE_CUTOFF == 5
\* GET_CLOSE_MATCHES_SECOND_PASS_CUTOFF = 0.7, in tenths
GET_CLOSE_MATCHES_SECOND_PASS_CUTOFF == 7

\* ------------------------------------------------------------------- names
EmptyStr == <<>>

Min(x, y) == IF x <= y THEN x ELSE y

\* ab, aab, a, abb, bb, b
OldPool ==
  << <<1, 2>>, <<1, 1, 2>>, <<1>>, <<1, 2, 2>>, <<2, 2>>, <<2>> >>

\* ab, aab, abb, a, bb, b
NewPool ==
  << <<1, 2>>, <<1, 1, 2>>, <<1, 2, 2>>, <<1>>, <<2, 2>>, <<2>> >>

\* names declared by the lines of the old and of the new catalog
OldNames == {OldPool[i] : i \in 1..Min(NumOldNames, Len(OldPool))}
NewNames == {NewPool[i] : i \in 1..Min(NumNewNames, Len(NewPool))}
Names == OldNames \cup NewNames

\* the str values
Strs == Seq(Nat)

\* Python's truth value of a str: non-empty
Truthy(s) == s # EmptyStr

\* Python's str ordering: code point by code point, a proper prefix is smaller
StrLess(s, t) ==
  \E k \in 1..Len(t) :
    /\ \A i \in 1..(k - 1) : i <= Len(s) /\ s[i] = t[i]
    /\ (k > Len(s) \/ s[k] < t[k])

\* ------------------------------------------- difflib.SequenceMatcher.ratio
\* length of the common run of a from i and b from j, inside a[..ahi), b[..bhi)
CommonRun(a, b, i, j, ahi, bhi) ==
  Cardinality({k \in 1..Min(ahi - i, bhi - j) :
                 \A d \in 0..(k - 1) : a[i + d] = b[j + d]})

\* size of the common run from each start <<i, j>> of the window
BlockSizes(a, b, alo, ahi, blo, bhi) ==
  [p \in (alo..(ahi - 1)) \X (blo..(bhi - 1)) |->
     CommonRun(a, b, p[1], p[2], ahi, bhi)]

\* the block at p beats the block at q: longer, else earlier in a, else in b
BetterBlock(size, p, q) ==
  \/ size[p] > size[q]
  \/ size[p] = size[q] /\ p[1] < q[1]
  \/ size[p] = size[q] /\ p[1] = q[1] /\ p[2] < q[2]

BlockAt(size, p) == <<p[1], p[2], size[p]>>

BestBlock(size, alo, blo) ==
  IF DOMAIN size = {} THEN <<alo, blo, 0>>
  ELSE BlockAt(size, CHOOSE p \in DOMAIN size :
                       \A q \in DOMAIN size : q = p \/ BetterBlock(size, p, q))

\* find_longest_match(alo, ahi, blo, bhi): the longest block a[i..i+k) = b[j..j+k),
\* the one starting earliest in a, and of those the one starting earliest in b
FindLongestMatch(a, b, alo, ahi, blo, bhi) ==
  BestBlock(BlockSizes(a, b, alo, ahi, blo, bhi), alo, blo)

\* the windows <<alo, ahi, blo, bhi>> get_matching_blocks may look at
Windows(a, b) ==
  (1..(Len(a) + 1)) \X (1..(Len(a) + 1)) \X (1..(Len(b) + 1)) \X (1..(Len(b) + 1))

\* size of the longest block m of the window w and of the blocks that Size
\* finds in the windows left and right of it
AroundBlock(Size, w, m) ==
  IF m[3] = 0 THEN 0
  ELSE m[3] + Size[<<w[1], m[1], w[3], m[2]>>]
            + Size[<<m[1] + m[3], w[2], m[2] + m[3], w[4]>>]

\* get_matching_blocks: total size of the matching blocks of the window
MatchingSize(a, b, alo, ahi, blo, bhi) ==
  LET Size[w \in Windows(a, b)] ==
        AroundBlock(Size, w, FindLongestMatch(a, b, w[1], w[2], w[3], w[4]))
  IN Size[<<alo, ahi, blo, bhi>>]

\* ratio() of SequenceMatcher with seq1 = x (the possibility), seq2 = word,
\* as the fraction <<numerator, denominator>>; two empty strings give 1.0
CalculateRatio(x, word) ==
  IF Len(x) + Len(word) = 0 THEN <<1, 1>>
  ELSE <<2 * MatchingSize(x, word, 1, Len(x) + 1, 1, Len(word) + 1),
         Len(x) + Len(word)>>

\* the strings the program compares: the names, their first characters, ''
Strings == Names \cup {<<n[1]>> : n \in Names} \cup {EmptyStr}

\* the ratios of all pairs of strings, computed once as an explicit table
RatioTable ==
  [p \in Strings \X Strings |-> CalculateRatio(p[1], p[2])] @@ <<>>

Ratio(x, word) == RatioTable[<<x, word>>]

RatioLess(p, q) == p[1] * q[2] < q[1] * p[2]
RatioEq(p, q) == p[1] * q[2] = q[1] * p[2]

\* r >= cutoff, the cutoff given in tenths
AtLeast(r, cutoff) == 10 * r[1] >= cutoff * r[2]

\* ratio >= cutoff
ClearsCutoff(x, word, cutoff) == AtLeast(Ratio(x, word), cutoff)

\* Python's tuple ordering of (p, x) and (q, y)
TupleLess(p, x, q, y) == RatioLess(p, q) \/ (RatioEq(p, q) /\ StrLess(x, y))

\* order of the (score, x) tuples that heapq.nlargest sorts
ScoredLess(x, y, word) == TupleLess(Ratio(x, word), x, Ratio(y, word), y)

\* heapq.nlargest(n, result): the first n of the possibilities in poss sorted
\* from the largest (score, x) tuple down
NLargest(n, poss, word) ==
  LET Before(i) == Cardinality({j \in 1..Len(poss) :
                                  \/ ScoredLess(poss[i], poss[j], word)
                                  \/ poss[j] = poss[i] /\ j < i})
  IN [r \in 1..Min(n, Len(poss)) |->
        poss[CHOOSE i \in 1..Len(poss) : Before(i) = r - 1]]

\* difflib.get_close_matches(word, possibilities, n, cutoff)
GetCloseMatches(word, possibilities, n, cutoff) ==
  NLargest(n, SelectSeq(possibilities, LAMBDA x : ClearsCutoff(x, word, cutoff)),
           word)

\* ------------------------------------------------------------ list helpers
\* list.index(x): position of the first element equal to x, 0 when absent
IndexOf(list, x) ==
  IF \E i \in 1..Len(list) : list[i] = x
  THEN CHOOSE i \in 1..Len(list) :
         list[i] = x /\ \A j \in 1..(i - 1) : list[j] # x
  ELSE 0

Contains(list, x) == IndexOf(list, x) # 0

\* list.remove(x) when x is present: drops the first element equal to x
RemoveFirst(list, x) ==
  LET k == IndexOf(list, x)
  IN [j \in 1..(Len(list) - 1) |-> IF j < k THEN list[j] ELSE list[j + 1]]

\* [f(x) for x in list]
MapSeq(list, F(_)) == [i \in 1..Len(list) |-> F(list[i])]

IsRename(x) == Truthy(x[1]) /\ Truthy(x[2])
IsAddition(x) == ~Truthy(x[1]) /\ Truthy(x[2])
IsRemoval(x) == Truthy(x[1]) /\ ~Truthy(x[2])

\* ------------------------------------------------------------------- lines
\* a diff line, lowercased: whether it holds 'standard_name name=' and, if so,
\* the token between its first pair of double quotes
DeclLine(n) == [decl |-> TRUE, name |-> n]
NonDecl == [decl |-> FALSE, name |-> EmptyStr]
\* the '-' lines come from the old catalog, the '+' lines from the new one
MinusLines == {DeclLine(n) : n \in OldNames} \cup {NonDecl}
PlusLines == {DeclLine(n) : n \in NewNames} \cup {NonDecl}

\* 'standard_name name=' in line
IsDecl(line) == line.decl
\* line.split('"')[1]
NameOf(line) == line.name

\* names of the declaration lines of a line list, in order
DeclNames(lines) == MapSeq(SelectSeq(lines, IsDecl), NameOf)

\* ------------------------------------------------------ process_diff_lines
\* the non-interactive resolution of a hunk with unequal, non-empty line lists
\* st = <<std_name_changes, removals still to handle, potential_additions>>
AutoStep(st, close_matches) ==
  IF Len(close_matches) > 0
  THEN <<Append(st[1], <<Head(st[2]), close_matches[1]>>), Tail(st[2]),
         RemoveFirst(st[3], close_matches[1])>>
  ELSE <<Append(st[1], <<Head(st[2]), EmptyStr>>), Tail(st[2]), st[3]>>

AutoMatch(changes, removals, additions) ==
  LET Loop[st \in Seq(Strs \X Strs) \X Seq(Strs) \X Seq(Strs)] ==
        IF st[2] = <<>>
        THEN st[1] \o MapSeq(st[3], LAMBDA a : <<EmptyStr, a>>)
        ELSE Loop[AutoStep(st, GetCloseMatches(Head(st[2]), st[3], 1,
                                 GET_CLOSE_MATCHES_NONINTERACTIVE_CUTOFF))]
  IN Loop[<<changes, removals, additions>>]

\* equal line counts: one record per index whose two lines both declare a name
PairLines(changes, minus, plus) ==
  LET both == SelectSeq([i \in 1..Len(minus) |-> <<minus[i], plus[i]>>],
                        LAMBDA p : IsDecl(p[1]) /\ IsDecl(p[2]))
  IN changes \o [i \in 1..Len(both) |-> <<NameOf(both[i][1]), NameOf(both[i][2])>>]

ProcessDiffLines(changes, minus, plus) ==
  IF Len(minus) = Len(plus) THEN PairLines(changes, minus, plus)
  ELSE IF Len(minus) = 0
  THEN changes \o MapSeq(DeclNames(plus), LAMBDA a : <<EmptyStr, a>>)
  ELSE IF Len(plus) = 0
  THEN changes \o MapSeq(DeclNames(minus), LAMBDA r : <<r, EmptyStr>>)
  ELSE AutoMatch(changes, DeclNames(minus), DeclNames(plus))

\* ------------------------------------------------ find_changed_vars: sweeps
\* the lists recomputed from the change list before each sweep
Replacements(changes) == SelectSeq(changes, IsRename)
ReplacementsNew(changes) == MapSeq(Replacements(changes), LAMBDA x : x[2])
AdditionNames(changes) == MapSeq(SelectSeq(changes, IsAddition), LAMBDA x : x[2])
Deletions(changes) == MapSeq(SelectSeq(changes, IsRemoval), LAMBDA x : x[1])

\* [x[0] for x in std_name_changes if x[1] == c], as a sequence
OriginalsOf(changes, c) ==
  MapSeq(SelectSeq(changes, LAMBDA x : x[2] = c), LAMBDA x : x[1])

NoRaise(changes) == [raised |-> FALSE, changes |-> changes]
Raise(changes) == [raised |-> TRUE, changes |-> changes]

\* the substitution without the former target made a new standard name
Sweep1SubstituteNoReinstate(changes, r, c) ==
  Append(RemoveFirst(changes, r), <<r[1], c>>)

\* sweep 1, the close match was a "new" standard name
Sweep1Substitute(changes, r, c) ==
  Append(Append(RemoveFirst(changes, r), <<EmptyStr, r[2]>>), <<r[1], c>>)

\* sweep 1, the close match was part of an existing match
Sweep1Displace(changes, r, c) ==
  LET reinstated == Append(RemoveFirst(changes, r), <<EmptyStr, r[2]>>)
      origs == OriginalsOf(reinstated, c)
  IN IF origs = <<>> THEN Raise(reinstated)
     ELSE NoRaise(Append(Append(reinstated, <<origs[1], EmptyStr>>), <<r[1], c>>))

\* match_order[0] == close_matches[0]
CandidateWins(word, current, c) ==
  GetCloseMatches(word, <<current, c>>, 2, 0)[1] = c

\* the loop body once close_matches is known
Sweep1Match(changes, r, repl_new, close_matches) ==
  IF Len(close_matches) = 0 THEN NoRaise(changes)
  ELSE IF ~CandidateWins(r[1], r[2], close_matches[1]) THEN NoRaise(changes)
  ELSE IF ~Contains(changes, r) THEN Raise(changes)
  ELSE IF ~Contains(repl_new, close_matches[1])
  THEN NoRaise(Sweep1Substitute(changes, r, close_matches[1]))
  ELSE Sweep1Displace(changes, r, close_matches[1])

\* body of the loop over std_nm_replacements for the record r
Sweep1Body(changes, r, repl_new, nm_new) ==
  Sweep1Match(changes, r, repl_new,
              GetCloseMatches(r[1], nm_new, 1, GET_CLOSE_MATCHES_SECOND_PASS_CUTOFF))

\* the word sweep 2 looks up for the deleted name d: d[0], its first character
Sweep2Word(d) == <<d[1]>>

\* sweep 2, the close match is no rename's target
Sweep2Merge(changes, d, c) ==
  IF ~Contains(changes, <<d, EmptyStr>>) THEN Raise(changes)
  ELSE LET gone == RemoveFirst(changes, <<d, EmptyStr>>)
       IN IF ~Contains(gone, <<EmptyStr, c>>) THEN Raise(gone)
          ELSE NoRaise(Append(RemoveFirst(gone, <<EmptyStr, c>>), <<d, c>>))

\* sweep 2, the match was already matched to something else; remove(d) looks
\* for the str d in a list of tuples, finds none and raises ValueError
Sweep2Displace(changes, d, c) ==
  LET origs == OriginalsOf(changes, c)
  IN IF origs = <<>> THEN Raise(changes)
     ELSE IF GetCloseMatches(c, <<Sweep2Word(d), origs[1]>>, 2, 0)[1] = Sweep2Word(d)
     THEN Raise(changes)
     ELSE NoRaise(changes)

\* the loop body once close_matches is known
Sweep2Match(changes, d, repl_new, close_matches) ==
  IF Len(close_matches) = 0 THEN NoRaise(changes)
  ELSE IF ~Contains(repl_new, close_matches[1])
  THEN Sweep2Merge(changes, d, close_matches[1])
  ELSE Sweep2Displace(changes, d, close_matches[1])

\* body of the loop over std_nm_deletions for the name d
Sweep2Body(changes, d, repl_new, nm_new) ==
  Sweep2Match(changes, d, repl_new,
              GetCloseMatches(Sweep2Word(d), nm_new, 1,
                              GET_CLOSE_MATCHES_SECOND_PASS_CUTOFF))

\* len([x for x in std_name_changes if ...])
Count(changes, P(_)) == Len(SelectSeq(changes, P))

\* ------------------------------------------------------------------ states
\* line lists of one side of a hunk
RECURSIVE SeqsUpTo(_, _)
SeqsUpTo(S, n) ==
  IF n = 0 THEN {<<>>}
  ELSE LET shorter == SeqsUpTo(S, n - 1)
       IN shorter \cup {Append(q, x) : q \in {t \in shorter : Len(t) = n - 1}, x \in S}


\* In the diff loop a hunk replaces at most one line by at most one line: such
\* hunks build every tentative change list (one record per hunk) and lose a
\* name when a declaration faces another kind of line.
DiffSides(lines) == {<<>>} \cup {<<l>> : l \in lines}

NoDuplicates(list) ==
  \A i, j \in 1..Len(list) : i # j => list[i] # list[j]

Range(list) == {list[i] : i \in 1..Len(list)}

Idle ==
  /\ minus_lines = <<>> /\ plus_lines = <<>>
  /\ minus_names = {} /\ plus_names = {} /\ unique_names = TRUE
  /\ std_nm_replacements = <<>> /\ std_nm_replacements_new = <<>>
  /\ std_nm_new = <<>> /\ std_nm_deletions = <<>>
  /\ idx = 1 /\ hunks_read = 0
  /\ n_replacements = 0 /\ n_adds = 0 /\ n_removals = 0
  /\ runs = 0 /\ reconciled = <<>>
  /\ std_name_changes_from_file = <<>> /\ known_names = {}
  /\ potential_removals = <<>> /\ potential_additions = <<>>
  /\ processed_potential_removals = <<>>
  /\ diff_lines = <<>>

\* find_changed_vars before the first diff line: std_name_changes = []
Init ==
  /\ pc = "diff"
  /\ std_name_changes = <<>>
  /\ Idle

\* ------------------------------------------ find_changed_vars: the diff loop
\* The '-' and '+' lines of one hunk are read and, at the next '@@' line or at
\* the end of the diff, handed to process_diff_lines; the line lists are reset.
\* The two header lines '--- old' and '+++ new' form the first such hunk.
ReadHunk ==
  /\ pc = "diff"
  /\ hunks_read < MaxHunks
  /\ hunks_read' = hunks_read + 1
  /\ \E minus \in DiffSides(MinusLines), plus \in DiffSides(PlusLines) :
       LET changes == ProcessDiffLines(std_name_changes, minus, plus)
           removed == DeclNames(minus)
           added == DeclNames(plus)
       IN /\ Len(minus) + Len(plus) > 0
          /\ std_name_changes' = changes
          /\ minus_names' = minus_names \cup Range(removed)
          /\ plus_names' = plus_names \cup Range(added)
          /\ unique_names' = (/\ unique_names
                              /\ NoDuplicates(removed) /\ NoDuplicates(added)
                              /\ Range(removed) \cap minus_names = {}
                              /\ Range(added) \cap plus_names = {})
  /\ minus_lines' = <<>> /\ plus_lines' = <<>>
  /\ UNCHANGED <<pc, std_nm_replacements, std_nm_replacements_new, std_nm_new,
                 std_nm_deletions, idx, n_replacements, n_adds, n_removals, runs,
                 reconciled, std_name_changes_from_file, known_names,
                 potential_removals, potential_additions,
                 processed_potential_removals, diff_lines>>

\* the lists of sweep 1 are computed from the tentative change list
StartSweep1 ==
  /\ std_nm_replacements' = Replacements(std_name_changes)
  /\ std_nm_replacements_new' = ReplacementsNew(std_name_changes)
  /\ std_nm_new' = AdditionNames(std_name_changes)
  /\ idx' = 1
  /\ pc' = "sweep1"

\* the diff is exhausted
EndDiff ==
  /\ pc = "diff"
  /\ StartSweep1
  /\ UNCHANGED <<std_name_changes, minus_lines, plus_lines, minus_names,
                 plus_names, unique_names, std_nm_deletions, hunks_read,
                 n_replacements, n_adds, n_removals, runs, reconciled,
                 std_name_changes_from_file, known_names,
                 potential_removals, potential_additions,
                 processed_potential_removals, diff_lines>>

\* one pass of "for r in std_nm_replacements"
Sweep1Step ==
  /\ pc = "sweep1"
  /\ idx <= Len(std_nm_replacements)
  /\ \E out \in {Sweep1Body(std_name_changes, std_nm_replacements[idx],
                             std_nm_replacements_new, std_nm_new)} :
       /\ std_name_changes' = out.changes
       /\ pc' = IF out.raised THEN "error" ELSE pc
  /\ idx' = idx + 1
  /\ UNCHANGED <<minus_lines, plus_lines, minus_names, plus_names, unique_names,
                 std_nm_replacements, std_nm_replacements_new, std_nm_new,
                 std_nm_deletions, hunks_read, n_replacements, n_adds, n_removals,
                 runs, reconciled, std_name_changes_from_file, known_names,
                 potential_removals, potential_additions,
                 processed_potential_removals, diff_lines>>

\* the lists are recalculated for sweep 2
Sweep1Done ==
  /\ pc = "sweep1"
  /\ idx > Len(std_nm_replacements)
  /\ std_nm_replacements' = Replacements(std_name_changes)
  /\ std_nm_replacements_new' = ReplacementsNew(std_name_changes)
  /\ std_nm_new' = AdditionNames(std_name_changes)
  /\ std_nm_deletions' = Deletions(std_name_changes)
  /\ idx' = 1
  /\ pc' = "sweep2"
  /\ UNCHANGED <<std_name_changes, minus_lines, plus_lines, minus_names,
                 plus_names, unique_names, hunks_read, n_replacements, n_adds,
                 n_removals, runs, reconciled, std_name_changes_from_file, known_names,
                 potential_removals, potential_additions,
                 processed_potential_removals, diff_lines>>

\* one pass of "for d in std_nm_deletions"
Sweep2Step ==
  /\ pc = "sweep2"
  /\ idx <= Len(std_nm_deletions)
  /\ \E out \in {Sweep2Body(std_name_changes, std_nm_deletions[idx],
                             std_nm_replacements_new, std_nm_new)} :
       /\ std_name_changes' = out.changes
       /\ pc' = IF out.raised THEN "error" ELSE pc
  /\ idx' = idx + 1
  /\ UNCHANGED <<minus_lines, plus_lines, minus_names, plus_names, unique_names,
                 std_nm_replacements, std_nm_replacements_new, std_nm_new,
                 std_nm_deletions, hunks_read, n_replacements, n_adds, n_removals,
                 runs, reconciled, std_name_changes_from_file, known_names,
                 potential_removals, potential_additions,
                 processed_potential_removals, diff_lines>>

\* the counts are taken and the function returns
Sweep2Done ==
  /\ pc = "sweep2"
  /\ idx > Len(std_nm_deletions)
  /\ n_replacements' = Count(std_name_changes, IsRename)
  /\ n_adds' = Count(std_name_changes, IsAddition)
  /\ n_removals' = Count(std_name_changes, IsRemoval)
  /\ runs' = runs + 1
  /\ pc' = "done"
  /\ UNCHANGED <<std_name_changes, minus_lines, plus_lines, minus_names,
                 plus_names, unique_names, std_nm_replacements,
                 std_nm_replacements_new, std_nm_new, std_nm_deletions, idx,
                 hunks_read, reconciled, std_name_changes_from_file, known_names,
                 potential_removals, potential_additions,
                 processed_potential_removals, diff_lines>>

Next ==
  \/ ReadHunk
  \/ EndDiff
  \/ Sweep1Step
  \/ Sweep1Done
  \/ Sweep2Step
  \/ Sweep2Done

Spec == Init /\ [][Next]_vars

\* -------------------------------------- the sweeps run on their own result
\* the two sweeps are applied once more, to the list the first run returned
Reapply ==
  /\ pc = "done"
  /\ runs = 1
  /\ reconciled' = std_name_changes
  /\ StartSweep1
  /\ UNCHANGED <<std_name_changes, minus_lines, plus_lines, minus_names,
                 plus_names, unique_names, std_nm_deletions, hunks_read,
                 n_replacements, n_adds, n_removals, runs,
                 std_name_changes_from_file, known_names,
                 potential_removals, potential_additions,
                 processed_potential_removals, diff_lines>>

NextReapply == Next \/ Reapply

SpecReapply == Init /\ [][NextReapply]_vars

\* ------------------------------------------- process_diff_lines on one hunk
HunkSides(lines) == SeqsUpTo(lines, MaxHunkLines)

InitHunk ==
  /\ pc = "hunk"
  /\ std_name_changes = <<>>
  /\ minus_lines \in HunkSides(MinusLines)
  /\ plus_lines \in HunkSides(PlusLines)
  /\ minus_names = {} /\ plus_names = {} /\ unique_names = TRUE
  /\ std_nm_replacements = <<>> /\ std_nm_replacements_new = <<>>
  /\ std_nm_new = <<>> /\ std_nm_deletions = <<>>
  /\ idx = 1 /\ hunks_read = 0
  /\ n_replacements = 0 /\ n_adds = 0 /\ n_removals = 0
  /\ runs = 0 /\ reconciled = <<>>
  /\ std_name_changes_from_file = <<>> /\ known_names = {}
  /\ potential_removals = <<>> /\ potential_additions = <<>>
  /\ processed_potential_removals = <<>>
  /\ diff_lines = <<>>

\* std_name_changes = process_diff_lines(std_name_changes, minus_lines, plus_lines)
CallProcessDiffLines ==
  /\ pc = "hunk"
  /\ std_name_changes' = ProcessDiffLines(std_name_changes, minus_lines, plus_lines)
  /\ pc' = "hunk_done"
  /\ UNCHANGED <<minus_lines, plus_lines, minus_names, plus_names, unique_names,
                 std_nm_replacements, std_nm_replacements_new, std_nm_new,
                 std_nm_deletions, idx, hunks_read, n_replacements, n_adds,
                 n_removals, runs, reconciled, std_name_changes_from_file,
                 known_names,
                 potential_removals, potential_additions,
                 processed_potential_removals, diff_lines>>

NextHunk == CallProcessDiffLines

SpecHunk == InitHunk /\ [][NextHunk]_vars

\* ------------------------- process_diff_lines on one hunk, INTERACTIVE true
\* the branches before "if INTERACTIVE"; an ambiguous hunk starts the prompts
CallInteractive ==
  /\ pc = "hunk"
  /\ IF \/ Len(minus_lines) = Len(plus_lines)
        \/ Len(minus_lines) = 0
        \/ Len(plus_lines) = 0
     THEN /\ std_name_changes' =
               ProcessDiffLines(std_name_changes, minus_lines, plus_lines)
          /\ pc' = "hunk_done"
          /\ UNCHANGED <<potential_removals, potential_additions>>
     ELSE /\ potential_removals' = DeclNames(minus_lines)
          /\ potential_additions' = DeclNames(plus_lines)
          /\ pc' = "ask"
          /\ UNCHANGED std_name_changes
  /\ processed_potential_removals' = <<>>
  /\ idx' = 1
  /\ UNCHANGED <<minus_lines, plus_lines, minus_names, plus_names, unique_names,
                 std_nm_replacements, std_nm_replacements_new, std_nm_new,
                 std_nm_deletions, hunks_read, n_replacements, n_adds,
                 n_removals, runs, reconciled, std_name_changes_from_file,
                 known_names, diff_lines>>

\* one pass of "for i in range(len(potential_removals))": get_choice returns a
\* value of range(len(potential_additions) + 1), whatever was typed before it
GetChoice ==
  /\ pc = "ask"
  /\ idx <= Len(potential_removals)
  /\ \E val \in 0..Len(potential_additions) :
       IF val > 0
       THEN /\ std_name_changes' =
                 Append(std_name_changes,
                        <<potential_removals[idx], potential_additions[val]>>)
            /\ processed_potential_removals' =
                 Append(processed_potential_removals, potential_removals[idx])
            /\ potential_additions' =
                 RemoveFirst(potential_additions, potential_additions[val])
       ELSE UNCHANGED <<std_name_changes, processed_potential_removals,
                        potential_additions>>
  /\ idx' = idx + 1
  /\ UNCHANGED <<pc, minus_lines, plus_lines, minus_names, plus_names,
                 unique_names, std_nm_replacements, std_nm_replacements_new,
                 std_nm_new, std_nm_deletions, hunks_read, n_replacements,
                 n_adds, n_removals, runs, reconciled,
                 std_name_changes_from_file, known_names, potential_removals, diff_lines>>

\* potential_removals = [x for x in potential_removals
\*                       if x not in processed_potential_removals]
Unprocessed(removals, processed) ==
  SelectSeq(removals, LAMBDA x : ~Contains(processed, x))

\* the removals and additions left over are appended and the function returns
LeftOvers ==
  /\ pc = "ask"
  /\ idx > Len(potential_removals)
  /\ potential_removals' =
       Unprocessed(potential_removals, processed_potential_removals)
  /\ std_name_changes' =
       std_name_changes
         \o MapSeq(Unprocessed(potential_removals, processed_potential_removals),
                   LAMBDA r : <<r, EmptyStr>>)
         \o MapSeq(potential_additions, LAMBDA a : <<EmptyStr, a>>)
  /\ pc' = "hunk_done"
  /\ UNCHANGED <<minus_lines, plus_lines, minus_names, plus_names, unique_names,
                 std_nm_replacements, std_nm_replacements_new, std_nm_new,
                 std_nm_deletions, idx, hunks_read, n_replacements, n_adds,
                 n_removals, runs, reconciled, std_name_changes_from_file,
                 known_names, potential_additions,
                 processed_potential_removals, diff_lines>>

NextInteractive == CallInteractive \/ GetChoice \/ LeftOvers

SpecInteractive == InitHunk /\ [][NextInteractive]_vars

\* --------------------------------- find_changed_vars: the diff loop by line
\* a diff line, lowercased: whether it holds '@@', its first character, and
\* what process_diff_lines will look for in it
DiffLine(mark, sign, line) ==
  [mark |-> mark, sign |-> sign, decl |-> line.decl, name |-> line.name]

\* the lines of a unified diff: region markers, '-' and '+' lines that declare
\* a name or not, a '-' line whose text holds '@@', and context lines
DiffLineKinds ==
  {DiffLine(TRUE, "@", NonDecl), DiffLine(TRUE, "-", NonDecl),
   DiffLine(FALSE, "-", NonDecl), DiffLine(FALSE, "+", NonDecl),
   DiffLine(FALSE, " ", NonDecl)}
  \cup {DiffLine(FALSE, "-", DeclLine(OldPool[i])) :
          i \in 1..Min(NumLineNames, Len(OldPool))}
  \cup {DiffLine(FALSE, "+", DeclLine(NewPool[i + 1])) :
          i \in 1..Min(NumLineNames, Len(NewPool) - 1)}

\* the loop body with a last branch that also drops the lines in hand
LineStepDropping(st, line) ==
  IF line.mark
  THEN <<ProcessDiffLines(st[1], st[2], st[3]), <<>>, <<>>>>
  ELSE IF line.sign = "-" THEN <<st[1], Append(st[2], line), st[3]>>
  ELSE IF line.sign = "+" THEN <<st[1], st[2], Append(st[3], line)>>
  ELSE <<st[1], <<>>, <<>>>>

\* body of "for line in diff_lines" on st = <<std_name_changes, minus_lines,
\* plus_lines>>; the last branch only prints
LineStep(st, line) ==
  IF line.mark
  THEN <<ProcessDiffLines(st[1], st[2], st[3]), <<>>, <<>>>>
  ELSE IF line.sign = "-" THEN <<st[1], Append(st[2], line), st[3]>>
  ELSE IF line.sign = "+" THEN <<st[1], st[2], Append(st[3], line)>>
  ELSE st

InitLines ==
  /\ pc = "lines"
  /\ diff_lines \in SeqsUpTo(DiffLineKinds, MaxDiffLines)
  /\ std_name_changes = <<>>
  /\ minus_lines = <<>> /\ plus_lines = <<>>
  /\ minus_names = {} /\ plus_names = {} /\ unique_names = TRUE
  /\ std_nm_replacements = <<>> /\ std_nm_replacements_new = <<>>
  /\ std_nm_new = <<>> /\ std_nm_deletions = <<>>
  /\ idx = 1 /\ hunks_read = 0
  /\ n_replacements = 0 /\ n_adds = 0 /\ n_removals = 0
  /\ runs = 0 /\ reconciled = <<>>
  /\ std_name_changes_from_file = <<>> /\ known_names = {}
  /\ potential_removals = <<>> /\ potential_additions = <<>>
  /\ processed_potential_removals = <<>>

\* one pass of "for line in diff_lines"
ReadLine ==
  /\ pc = "lines"
  /\ idx <= Len(diff_lines)
  /\ \E out \in {LineStep(<<std_name_changes, minus_lines, plus_lines>>,
                            diff_lines[idx])} :
       /\ std_name_changes' = out[1]
       /\ minus_lines' = out[2]
       /\ plus_lines' = out[3]
  /\ idx' = idx + 1
  /\ UNCHANGED <<pc, minus_names, plus_names, unique_names,
                 std_nm_replacements, std_nm_replacements_new, std_nm_new,
                 std_nm_deletions, hunks_read, n_replacements, n_adds,
                 n_removals, runs, reconciled, std_name_changes_from_file,
                 known_names, potential_removals, potential_additions,
                 processed_potential_removals, diff_lines>>

\* "process the last diff hunk"
LastHunk ==
  /\ pc = "lines"
  /\ idx > Len(diff_lines)
  /\ std_name_changes' =
       ProcessDiffLines(std_name_changes, minus_lines, plus_lines)
  /\ pc' = "lines_done"
  /\ UNCHANGED <<minus_lines, plus_lines, minus_names, plus_names,
                 unique_names, std_nm_replacements, std_nm_replacements_new,
                 std_nm_new, std_nm_deletions, idx, hunks_read, n_replacements,
                 n_adds, n_removals, runs, reconciled,
                 std_name_changes_from_file, known_names, potential_removals,
                 potential_additions, processed_potential_removals,
                 diff_lines>>

NextLines == ReadLine \/ LastHunk

SpecLines == InitLines /\ [][NextLines]_vars

\* ------------------------------------------------------- parse_change_file
ReplayNames == {OldPool[i] : i \in 1..Min(NumReplayNames, Len(OldPool))}

\* the two-element arrays a change file may hold
ReplayRecords ==
  (ReplayNames \cup {EmptyStr}) \X (ReplayNames \cup {EmptyStr})

\* the validation that also drops the pure removal of an unknown name
KeepChangeKnownOld(change, known) ==
  ~(Truthy(change[1]) /\ change[1] \notin known)

\* not ((change[0] and change[1]) and change[0] not in the known names)
KeepChange(change, known) ==
  ~(IsRename(change) /\ change[1] \notin known)

InitReplay ==
  /\ pc = "replay"
  /\ std_name_changes_from_file \in SeqsUpTo(ReplayRecords, MaxFileChanges)
  /\ known_names \in SUBSET ReplayNames
  /\ std_name_changes = <<>>
  /\ minus_lines = <<>> /\ plus_lines = <<>>
  /\ minus_names = {} /\ plus_names = {} /\ unique_names = TRUE
  /\ std_nm_replacements = <<>> /\ std_nm_replacements_new = <<>>
  /\ std_nm_new = <<>> /\ std_nm_deletions = <<>>
  /\ idx = 1 /\ hunks_read = 0
  /\ n_replacements = 0 /\ n_adds = 0 /\ n_removals = 0
  /\ runs = 0 /\ reconciled = <<>>
  /\ potential_removals = <<>> /\ potential_additions = <<>>
  /\ processed_potential_removals = <<>>
  /\ diff_lines = <<>>

\* one pass of "for change in std_name_changes_from_file"
ParseChange ==
  /\ pc = "replay"
  /\ idx <= Len(std_name_changes_from_file)
  /\ std_name_changes' =
       IF KeepChange(std_name_changes_from_file[idx], known_names)
       THEN Append(std_name_changes, std_name_changes_from_file[idx])
       ELSE std_name_changes
  /\ idx' = idx + 1
  /\ UNCHANGED <<pc, minus_lines, plus_lines, minus_names, plus_names,
                 unique_names, std_nm_replacements, std_nm_replacements_new,
                 std_nm_new, std_nm_deletions, hunks_read, n_replacements,
                 n_adds, n_removals, runs, reconciled,
                 std_name_changes_from_file, known_names,
                 potential_removals, potential_additions,
                 processed_potential_removals, diff_lines>>

\* the counts are taken over the validated list and the function returns
ParseDone ==
  /\ pc = "replay"
  /\ idx > Len(std_name_changes_from_file)
  /\ n_replacements' = Count(std_name_changes, IsRename)
  /\ n_adds' = Count(std_name_changes, IsAddition)
  /\ n_removals' = Count(std_name_changes, IsRemoval)
  /\ pc' = "replay_done"
  /\ UNCHANGED <<std_name_changes, minus_lines, plus_lines, minus_names,
                 plus_names, unique_names, std_nm_replacements,
                 std_nm_replacements_new, std_nm_new, std_nm_deletions, idx,
                 hunks_read, runs, reconciled, std_name_changes_from_file,
                 known_names,
                 potential_removals, potential_additions,
                 processed_potential_removals, diff_lines>>

NextReplay == ParseChange \/ ParseDone

SpecReplay == InitReplay /\ [][NextReplay]_vars

\* ================================================================== claims

\* C1: every record of the change list built by find_changed_vars, through the
\* hunk classification and both sweeps, has at least one non-empty field; the
\* record ('', '') is never appended.
C1_NoEmptyRecord ==
  \A i \in 1..Len(std_name_changes) :
    Truthy(std_name_changes[i][1]) \/ Truthy(std_name_changes[i][2])

\* C2: when find_changed_vars returns for catalogs whose names are unique
\* within each version, no two rename records share the same new name.
C2_NoDuplicateTargets ==
  (pc = "done" /\ unique_names) =>
    \A i, j \in 1..Len(std_name_changes) :
      (/\ i # j
       /\ IsRename(std_name_changes[i])
       /\ IsRename(std_name_changes[j]))
      => std_name_changes[i][2] # std_name_changes[j][2]

\* C3: when find_changed_vars returns, every name declared only by the old
\* catalog is the old field of a pure removal or of a rename, and every name
\* declared only by the new catalog is the new field of a pure addition or of
\* a rename.  With unique names the names declared only by the old catalog are
\* those of the '-' lines that no '+' line declares, and symmetrically.
C3_Completeness ==
  (pc = "done" /\ unique_names) =>
    /\ \A n \in minus_names \ plus_names :
         \E i \in 1..Len(std_name_changes) : std_name_changes[i][1] = n
    /\ \A n \in plus_names \ minus_names :
         \E i \in 1..Len(std_name_changes) : std_name_changes[i][2] = n

\* C4: applying the two sweeps to the list they returned changes nothing: in
\* every state of the second application the list is the one the first
\* application returned, and the second application does not fail.
C4_Idempotent ==
  (unique_names /\ ((runs = 1 /\ pc # "done") \/ runs = 2)) =>
    (std_name_changes = reconciled /\ pc # "error")

\* C5: a hunk whose removed-name list R and added-name list A have equal
\* length makes process_diff_lines append exactly the records (R[i], A[i]),
\* in increasing order of i, whatever the similarity of the names.
C5_PositionalPairing ==
  LET R == DeclNames(minus_lines)
      A == DeclNames(plus_lines)
  IN (pc = "hunk_done" /\ Len(R) = Len(A)) =>
       std_name_changes = [i \in 1..Len(R) |-> <<R[i], A[i]>>]

\* the added names not yet consumed once the given targets were paired
C6_Unconsumed(pool, targets) ==
  LET Left[st \in Seq(Strs) \X Seq(Strs)] ==
        IF st[2] = <<>> THEN st[1]
        ELSE Left[<<IF Contains(st[1], Head(st[2]))
                    THEN RemoveFirst(st[1], Head(st[2])) ELSE st[1],
                    Tail(st[2])>>]
  IN Left[<<pool, targets>>]

\* C6: for a hunk whose name lists R and A are both non-empty and of unequal
\* length, process_diff_lines yields, in the order of R, exactly one record per
\* removed name: a rename to a best match among the added names not yet
\* consumed when that match clears the cutoff 0.5, else a pure removal; then
\* exactly one pure addition per added name that was never consumed.
C6_AutomaticResolution ==
  LET R == DeclNames(minus_lines)
      A == DeclNames(plus_lines)
      handled == SelectSeq(std_name_changes, LAMBDA x : Truthy(x[1]))
      additions == SelectSeq(std_name_changes, IsAddition)
      Targets(n) == MapSeq(SelectSeq(SubSeq(handled, 1, n), IsRename),
                           LAMBDA x : x[2])
      Pool(i) == C6_Unconsumed(A, Targets(i - 1))
  IN (pc = "hunk_done" /\ Len(R) > 0 /\ Len(A) > 0 /\ Len(R) # Len(A)) =>
       /\ std_name_changes = handled \o additions
       /\ MapSeq(handled, LAMBDA x : x[1]) = R
       /\ \A i \in 1..Len(handled) :
            LET new == handled[i][2]
            IN IF Truthy(new)
               THEN /\ Contains(Pool(i), new)
                    /\ ClearsCutoff(new, R[i], GET_CLOSE_MATCHES_NONINTERACTIVE_CUTOFF)
                    /\ \A q \in Range(Pool(i)) :
                         ~RatioLess(Ratio(new, R[i]), Ratio(q, R[i]))
               ELSE \A q \in Range(Pool(i)) :
                      ~ClearsCutoff(q, R[i], GET_CLOSE_MATCHES_NONINTERACTIVE_CUTOFF)
       /\ MapSeq(additions, LAMBDA x : x[2]) = Pool(Len(handled) + 1)

\* C7: in sweep 1, when the closest pure addition c clearing the cutoff 0.7 is
\* exactly as similar to old as the current target new of the record
\* (old, new), the record is kept and the change list is left unchanged.
C7_TieKeepsPairing ==
  [][(/\ pc = "sweep1"
      /\ unique_names
      /\ idx <= Len(std_nm_replacements)
      /\ LET r == std_nm_replacements[idx]
             close_matches == GetCloseMatches(r[1], std_nm_new, 1,
                                GET_CLOSE_MATCHES_SECOND_PASS_CUTOFF)
         IN /\ close_matches # <<>>
            /\ RatioEq(Ratio(close_matches[1], r[1]), Ratio(r[2], r[1])))
     => std_name_changes' = std_name_changes]_vars

\* the rename record number i of sweep 1 has a closest pure addition that
\* clears the cutoff 0.7, is strictly more similar to old than the current
\* target, and is the target of no other rename
C8_Substituted(i) ==
  LET r == std_nm_replacements[i]
      close_matches == GetCloseMatches(r[1], std_nm_new, 1,
                         GET_CLOSE_MATCHES_SECOND_PASS_CUTOFF)
  IN /\ close_matches # <<>>
     /\ RatioLess(Ratio(r[2], r[1]), Ratio(close_matches[1], r[1]))
     /\ \A j \in 1..Len(std_nm_replacements) :
          j # i => std_nm_replacements[j][2] # close_matches[1]

\* C8: once sweep 1 has passed a rename (old, new) whose closest pure addition
\* c clears 0.7, is more similar to old than new is and is no other rename's
\* target, the list holds ('', new) and (old, c), and at the end of the sweep
\* it holds (old, new) no more; a rename for which no pure addition clears the
\* cutoff stays in the list.
C8_Sweep1Substitution ==
  (pc = "sweep1" /\ runs = 0) =>
    \A i \in 1..(idx - 1) :
      LET r == std_nm_replacements[i]
          close_matches == GetCloseMatches(r[1], std_nm_new, 1,
                             GET_CLOSE_MATCHES_SECOND_PASS_CUTOFF)
      IN /\ C8_Substituted(i) =>
               /\ Contains(std_name_changes, <<EmptyStr, r[2]>>)
               /\ Contains(std_name_changes, <<r[1], close_matches[1]>>)
               /\ idx > Len(std_nm_replacements) => ~Contains(std_name_changes, r)
         /\ close_matches = <<>> => Contains(std_name_changes, r)

\* sweep 1 has finished and substituted the target of some rename
C8_Witness ==
  /\ pc = "sweep1" /\ runs = 0 /\ unique_names
  /\ idx > Len(std_nm_replacements)
  /\ \E i \in 1..Len(std_nm_replacements) : C8_Substituted(i)

\* C9: in sweep 2, a pure removal (old, '') whose closest pure addition c, by
\* the similarity to the full name old, clears the cutoff 0.7 and is no
\* rename's target is merged: (old, '') and ('', c) leave the list and the
\* rename (old, c) is added.
C9_Sweep2Merges ==
  [][(/\ pc = "sweep2"
      /\ unique_names
      /\ idx <= Len(std_nm_deletions)
      /\ LET d == std_nm_deletions[idx]
             close_matches == GetCloseMatches(d, AdditionNames(std_name_changes), 1,
                                GET_CLOSE_MATCHES_SECOND_PASS_CUTOFF)
         IN /\ close_matches # <<>>
            /\ ~Contains(ReplacementsNew(std_name_changes), close_matches[1])
            /\ Contains(std_name_changes, <<d, EmptyStr>>))
     => LET d == std_nm_deletions[idx]
            c == GetCloseMatches(d, AdditionNames(std_name_changes), 1,
                   GET_CLOSE_MATCHES_SECOND_PASS_CUTOFF)[1]
        IN std_name_changes' =
             Append(RemoveFirst(RemoveFirst(std_name_changes, <<d, EmptyStr>>),
                                <<EmptyStr, c>>),
                    <<d, c>>)]_vars

\* C10 as stated: parse_change_file drops every record whose old field is
\* non-empty and not a known name, renames and pure removals alike, keeps the
\* others in their stored order and counts the kept records.
C10_DropsUnknownOld ==
  LET kept == SelectSeq(std_name_changes_from_file,
                        LAMBDA x : ~(Truthy(x[1]) /\ x[1] \notin known_names))
  IN pc = "replay_done" =>
       /\ std_name_changes = kept
       /\ n_replacements = Count(kept, IsRename)
       /\ n_adds = Count(kept, IsAddition)
       /\ n_removals = Count(kept, IsRemoval)

\* C10 amended: parse_change_file drops exactly the rename records (both
\* fields non-empty) whose old field is not a known name; every other record,
\* a pure removal of an unknown name included, is kept in the stored order,
\* and the counts are those of the kept records.
C10_DropsUnknownRenames ==
  LET kept == SelectSeq(std_name_changes_from_file,
                        LAMBDA x : ~(Truthy(x[1]) /\ Truthy(x[2])
                                     /\ x[1] \notin known_names))
  IN pc = "replay_done" =>
       /\ std_name_changes = kept
       /\ n_replacements = Count(kept, IsRename)
       /\ n_adds = Count(kept, IsAddition)
       /\ n_removals = Count(kept, IsRemoval)

\* a rename of an unknown name was dropped and the pure removal of an unknown
\* name stored after it was kept
C10_Witness ==
  /\ pc = "replay_done"
  /\ Len(std_name_changes_from_file) = 2
  /\ IsRename(std_name_changes_from_file[1])
  /\ std_name_changes_from_file[1][1] \notin known_names
  /\ IsRemoval(std_name_changes_from_file[2])
  /\ std_name_changes_from_file[2][1] \notin known_names
  /\ std_name_changes = <<std_name_changes_from_file[2]>>
  /\ n_replacements = 0 /\ n_removals = 1

\* how many times x occurs in list
C11_Occurrences(list, x) == Len(SelectSeq(list, LAMBDA y : y = x))

\* C11: when the interactive resolution of an ambiguous hunk (name lists R
\* and A both non-empty and of unequal length) has returned, each removed
\* name is the old field of exactly one record per declaration of it, and each
\* added name is the new field of exactly one record per declaration of it:
\* every name of the hunk appears in exactly one record.
C11_InteractiveResolution ==
  LET R == DeclNames(minus_lines)
      A == DeclNames(plus_lines)
      olds == MapSeq(std_name_changes, LAMBDA x : x[1])
      news == MapSeq(std_name_changes, LAMBDA x : x[2])
  IN (pc = "hunk_done" /\ Len(R) > 0 /\ Len(A) > 0 /\ Len(R) # Len(A)) =>
       /\ C1_NoEmptyRecord
       /\ \A n \in Names : C11_Occurrences(olds, n) = C11_Occurrences(R, n)
       /\ \A n \in Names : C11_Occurrences(news, n) = C11_Occurrences(A, n)

\* a line that is no region marker, no '-' line and no '+' line
C12_Malformed(line) == ~line.mark /\ line.sign # "-" /\ line.sign # "+"

\* the lists the diff loop builds from the given lines
C12_LoopState(lines) ==
  LET After[k \in 0..Len(lines)] ==
        IF k = 0 THEN << <<>>, <<>>, <<>> >>
        ELSE LineStep(After[k - 1], lines[k])
  IN After[Len(lines)]

\* the given lines without the malformed ones
C12_WellFormed(lines) == SelectSeq(lines, LAMBDA l : ~C12_Malformed(l))

\* what process_diff_lines makes of the last hunk of the loop state st
C12_Final(st) == ProcessDiffLines(st[1], st[2], st[3])

\* C12: a malformed line changes neither the line lists nor the change list
\* and the loop goes on: after any number of lines the three lists are those
\* the loop builds from the lines read so far with the malformed ones left
\* out, and after the final hunk the change list is the one built from the
\* diff without its malformed lines.
C12_MalformedLineSkipped ==
  /\ pc = "lines" =>
       <<std_name_changes, minus_lines, plus_lines>> =
         C12_LoopState(C12_WellFormed(SubSeq(diff_lines, 1, idx - 1)))
  /\ pc = "lines_done" =>
       std_name_changes = C12_Final(C12_LoopState(C12_WellFormed(diff_lines)))

\* the loop has returned a rename whose '-' line and '+' line were separated
\* by a malformed line
C12_Witness ==
  /\ pc = "lines_done"
  /\ Len(diff_lines) = 3
  /\ diff_lines[1].sign = "-" /\ diff_lines[1].decl
  /\ C12_Malformed(diff_lines[2])
  /\ diff_lines[3].sign = "+" /\ diff_lines[3].decl
  /\ std_name_changes = << <<diff_lines[1].name, diff_lines[3].name>> >>

\* C13: for catalogs with unique names the two sweeps run to the return of
\* find_changed_vars: each sweep walks the list taken when it began, one
\* position at a time, and no list.remove fails on a record that is absent.
C13_ReachesReturn ==
  unique_names =>
    /\ pc # "error"
    /\ pc = "sweep1" => idx <= Len(std_nm_replacements) + 1
    /\ pc = "sweep2" => idx <= Len(std_nm_deletions) + 1

\* C14: in the list find_changed_vars returns for catalogs with unique names,
\* the target of a rename record is not also the name of a pure addition, and
\* so n_replacements + n_adds is at most the number of names the '+' lines
\* declare.
C14_NoDoubleRole ==
  (pc = "done" /\ unique_names) =>
    /\ \A i, j \in 1..Len(std_name_changes) :
         (IsRename(std_name_changes[i]) /\ IsAddition(std_name_changes[j]))
         => std_name_changes[i][2] # std_name_changes[j][2]
    /\ n_replacements + n_adds <= Cardinality(plus_names)

====
